---- MODULE Spec2Model ----
(***************************************************************************)
(* Plugin manager of pkg/plugins/manager: the registry of plugin handles,  *)
(* the crash-watch loop of managed backend plugins, Install / Uninstall /  *)
(* Register, and the resource call with its stream relay.                  *)
(*                                                                         *)
(* Spec      the registry, the lifecycle and the install orchestration:    *)
(*           one caller goroutine, one crash-watch goroutine per started   *)
(*           handle, and the plugin processes, which may exit at any time. *)
(* SpecCall  one CallResource invocation: the calling goroutine, the       *)
(*           plugin writing chunks to the stream, the relay goroutine      *)
(*           (flushStream) and the cancellation of the request context;    *)
(*           or one QueryData, CollectMetrics or CheckHealth invocation.   *)
(* SpecStop  the caller uninstalling and registering while one goroutine   *)
(*           runs stop and another runs Renderer over m.plugins.           *)
(* SpecRun   the shutdown: Run's context is cancelled and Run calls stop   *)
(*           while the crash-watch goroutines poll.                        *)
(* SpecSig   one call of PluginBase.IncludedInSignature.                   *)
(***************************************************************************)
EXTENDS Integers, Sequences, FiniteSets, TLC

(***************************************************************************)
(* Bounds of the model.                                                    *)
(***************************************************************************)
\* Handle objects the Loader may create over a run (Go pointers, never reused).
MaxHandles == 3

(***************************************************************************)
(* Values.                                                                 *)
(***************************************************************************)
PluginIDs == {"A", "B"}
Versions == {"1.0", "2.0"}
Handles == 1..MaxHandles
\* The nil *plugins.PluginV2.
NoPlugin == 0

\* plugins.PluginTypes, the slice of every plugin type.
PluginTypes == {"datasource", "panel", "app", "renderer"}

(***************************************************************************)
(* Paths.  A path is [abs, elems]; an element is a sequence of characters, *)
(* so that a path can be rendered as the string the code inspects.         *)
(***************************************************************************)
Separator == "/"
Dot == <<".">>
DotDot == <<".", ".">>

AbsPath(elems) == [abs |-> TRUE, elems |-> elems]
RelPath(elems) == [abs |-> FALSE, elems |-> elems]

\* m.Cfg.PluginsPath, the configured external-plugins root: /v/p
PluginsPath == AbsPath(<< <<"v">>, <<"p">> >>)
\* m.Cfg.StaticRootPath/app/plugins, where the core plugins live: /s
StaticRootPath == AbsPath(<< <<"s">> >>)

\* Directories a handle produced by the Loader may carry as PluginDir.
DirChild == AbsPath(<< <<"v">>, <<"p">>, <<"a">> >>)
DirRoot == PluginsPath
DirParent == AbsPath(<< <<"v">> >>)
DirSibling == AbsPath(<< <<"v">>, <<"o">> >>)
DirEscape == AbsPath(<< <<"v">>, <<"p">>, DotDot, DotDot, <<"e">> >>)
DirRelative == RelPath(<< <<"p">>, <<"a">> >>)
DirChoices == {DirChild, DirRoot, DirParent, DirSibling, DirEscape, DirRelative}

\* filepath.Clean on the elements: "." dropped, ".." cancels the element before it,
\* is dropped at the root of an absolute path and kept at the head of a relative one.
RECURSIVE CleanElems(_, _, _)
CleanElems(abs, rest, out) ==
    IF rest = <<>> THEN out
    ELSE LET e == Head(rest) IN
         IF e = Dot \/ e = <<>>
         THEN CleanElems(abs, Tail(rest), out)
         ELSE IF e = DotDot
         THEN IF out # <<>> /\ out[Len(out)] # DotDot
              THEN CleanElems(abs, Tail(rest), SubSeq(out, 1, Len(out) - 1))
              ELSE IF abs
              THEN CleanElems(abs, Tail(rest), out)
              ELSE CleanElems(abs, Tail(rest), Append(out, e))
         ELSE CleanElems(abs, Tail(rest), Append(out, e))

Clean(p) == [abs |-> p.abs, elems |-> CleanElems(p.abs, p.elems, <<>>)]

\* strings.Join(elems, "/") as a sequence of characters.
RECURSIVE JoinElems(_)
JoinElems(elems) ==
    IF elems = <<>> THEN <<>>
    ELSE IF Len(elems) = 1 THEN elems[1]
    ELSE elems[1] \o <<Separator>> \o JoinElems(Tail(elems))

\* Number of leading elements two element sequences share.
RECURSIVE CommonLen(_, _)
CommonLen(a, b) ==
    IF a = <<>> \/ b = <<>> \/ Head(a) # Head(b) THEN 0
    ELSE 1 + CommonLen(Tail(a), Tail(b))

\* filepath.Rel(basepath, targpath): [err, path], path a string (characters).
Rel(basepath, targpath) ==
    LET base == Clean(basepath)
        targ == Clean(targpath)
        k == CommonLen(base.elems, targ.elems)
        up == [i \in 1..(Len(base.elems) - k) |-> DotDot]
        down == SubSeq(targ.elems, k + 1, Len(targ.elems))
    IN  IF targ = base THEN [err |-> FALSE, path |-> Dot]
        ELSE IF base.abs # targ.abs THEN [err |-> TRUE, path |-> <<>>]
        ELSE IF k < Len(base.elems) /\ base.elems[k + 1] = DotDot
        THEN [err |-> TRUE, path |-> <<>>]
        ELSE [err |-> FALSE, path |-> JoinElems(up \o down)]

\* strings.HasPrefix
HasPrefix(s, prefix) ==
    Len(s) >= Len(prefix) /\ SubSeq(s, 1, Len(prefix)) = prefix

\* The security check of Uninstall: TRUE when the uninstall is refused.
OutsideOfPluginDir(pluginDir) ==
    LET r == Rel(PluginsPath, pluginDir)
    IN  r.err \/ HasPrefix(r.path, DotDot \o <<Separator>>)

\* Whether dir lies in the tree rooted at root (root itself included).
Under(root, dir) ==
    LET r == Clean(root)
        d == Clean(dir)
    IN  /\ r.abs = d.abs
        /\ Len(r.elems) <= Len(d.elems)
        /\ SubSeq(d.elems, 1, Len(r.elems)) = r.elems

(***************************************************************************)
(* State.                                                                  *)
(***************************************************************************)
VARIABLES
    plugins,         \* m.plugins: plugin id -> handle, NoPlugin when the key is absent
    handle,          \* the immutable fields of every handle object created so far
    decommissioned,  \* per handle: the flag Decommission sets and IsDecommissioned reads
    running,         \* per handle: whether its process runs; Exited() is its negation
    watch,           \* per handle: position of its restartKilledProcess goroutine
    disk,            \* what the Installer has put on the filesystem, per plugin id
    pc,              \* position of the caller goroutine
    call,            \* the operation the caller runs, with its arguments
    plugin,          \* the caller's local variable plugin (a handle)
    queue,           \* loadedPlugins still to be passed to registerAndStart
    trace,           \* the collaborator calls and map writes of the running operation
    result           \* what the last finished operation returned

\* One CallResource invocation.
VARIABLES
    cpc,               \* position of the goroutine that runs CallResource
    rpc,               \* position of the goroutine that runs flushStream
    pCtx,              \* pCtx.PluginID, the plugin the resource call is for
    reqCtxDone,        \* req.Context() is done
    cancelled,         \* cancel() of childCtx has been called
    stream,            \* the callResourceResponseStream: its closed flag and its channel
    sending,           \* the chunk a blocked Send offers on the channel
    resp,              \* flushStream's local resp
    processedStreams,  \* flushStream's local processedStreams
    flushStreamErr,    \* the variable the relay goroutine stores flushStream's result in
    w,                 \* the calls made on the http.ResponseWriter, in order
    sent,              \* the chunks that went through the channel, in order
    pluginErr,         \* what the plugin's CallResource returned
    retErr,            \* what callResourceInternal returns
    respCode,          \* the status JsonApiErr answered, 0 when it was not called
    calls              \* the collaborators invoked: the validator, the plugin capability

\* One QueryData, CollectMetrics or CheckHealth invocation.
VARIABLES
    dpc,               \* position of the goroutine that runs the dispatcher operation
    dop,               \* the operation: "QueryData", "CollectMetrics" or "CheckHealth"
    dret,              \* what the operation returned: its result and its error
    validateErr        \* what m.requestValidator.Validate returns for the request of the call

\* The goroutines that read m.plugins while the caller works, and the registry lock.
VARIABLES
    mapAccess,         \* the write to m.plugins the caller's operation made last, and its lock
    stopper,           \* the goroutine that runs stop: its position, its range, its Stop calls
    renderer           \* a goroutine that runs Renderer: its position and its range

\* Run, and one call of IncludedInSignature.
VARIABLES
    ctxDone,           \* the context given to Run is done
    sig                \* a PluginBase, the file asked about and what IncludedInSignature returned

mgrVars == <<plugins, handle, decommissioned, running, watch, disk,
             pc, call, plugin, queue, trace, result, mapAccess>>
dispVars == <<dpc, dop, dret, validateErr>>
stopVars == <<stopper, renderer>>
runVars == <<ctxDone>>
sigVars == <<sig>>
callVars == <<cpc, rpc, pCtx, reqCtxDone, cancelled, stream, sending, resp,
              processedStreams, flushStreamErr, w, sent, pluginErr, retErr, respCode, calls>>
vars == <<mgrVars, callVars, dispVars, stopVars, runVars, sigVars>>

(***************************************************************************)
(* Errors.                                                                 *)
(***************************************************************************)
Nil == "nil"
ErrInstallCorePlugin == "cannot install a Core plugin"
ErrUninstallCorePlugin == "cannot uninstall a Core plugin"
ErrUninstallOutsideOfPluginDir == "cannot uninstall a plugin outside"
ErrPluginNotInstalled == "plugin is not installed"
DuplicatePluginError == "plugin already exists"
ErrAlreadyRegistered == "plugin already registered"
ErrBackendAlreadyRegistered == "backend plugin already registered"
ErrIsNotRegistered == "plugin is not registered"
\* Errors the collaborators (Installer, Loader, the handle) may return.
ErrGetUpdateInfo == "GetUpdateInfo failed"
ErrInstallerInstall == "Installer.Install failed"
ErrInstallerUninstall == "Installer.Uninstall failed"
ErrLoadAll == "Loader.LoadAll failed"
ErrLoadWithFactory == "Loader.LoadWithFactory failed"
ErrDecommission == "Decommission failed"
ErrStop == "Stop failed"

(***************************************************************************)
(* Handles.                                                                *)
(***************************************************************************)
NoDir == RelPath(<<>>)
NoHandle ==
    [ID |-> "", Type |-> "", Class |-> "", Version |-> "", PluginDir |-> NoDir,
     Backend |-> FALSE, Managed |-> FALSE]

\* The handle object the next successful register stores: the lowest unused one.
Allocated == {h \in Handles : handle[h] # NoHandle}
HasFreeHandle == Allocated # Handles
NextHandle == CHOOSE h \in Handles \ Allocated : \A g \in Handles \ Allocated : h <= g

IsDecommissioned(h) == decommissioned[h]
Exited(h) == ~running[h]
IsManaged(h) == handle[h].Managed
IsExternalPlugin(h) == handle[h].Class = "external"

\* What plugin.json says of each plugin id.
TypeOf(id) == IF id = "A" THEN "datasource" ELSE "panel"
BackendOf(id) == id = "A"
DirElem(id) == IF id = "A" THEN <<"a">> ELSE <<"b">>

(***************************************************************************)
(* Lookups.                                                                *)
(***************************************************************************)
\* Plugin as it would be without the IsDecommissioned test.
PluginOfMap(pluginID) == plugins[pluginID]

Plugin(pluginID) ==
    LET p == plugins[pluginID]
    IN  IF p # NoPlugin /\ IsDecommissioned(p) THEN NoPlugin ELSE p

PluginByType(pluginID, pluginType) ==
    LET p == plugins[pluginID]
    IN  IF p # NoPlugin /\ (IsDecommissioned(p) \/ handle[p].Type # pluginType)
        THEN NoPlugin ELSE p

\* The list Plugins returns, as the set of its elements (map order is not fixed).
Plugins(pluginTypes) ==
    LET requestedTypes == IF pluginTypes = {} THEN PluginTypes ELSE pluginTypes
    IN  {plugins[id] : id \in {i \in PluginIDs :
                                  /\ plugins[i] # NoPlugin
                                  /\ handle[plugins[i]].Type \in requestedTypes}}

registeredPlugins == {id \in PluginIDs : plugins[id] # NoPlugin}

isRegistered(pluginID) ==
    LET p == Plugin(pluginID)
    IN  IF p = NoPlugin THEN FALSE ELSE ~IsDecommissioned(p)

(***************************************************************************)
(* The collaborators: Installer and Loader.                                *)
(***************************************************************************)
NoInstall == [present |-> FALSE, Version |-> "", Dir |-> NoDir]

\* Installer.Install unpacks the plugin into <installDir>/<id>.
InstallerInstall(pluginID, version, installDir) ==
    [disk EXCEPT ![pluginID] =
        [present |-> TRUE, Version |-> version,
         Dir |-> [abs |-> installDir.abs,
                  elems |-> Append(installDir.elems, DirElem(pluginID))]]]

\* Installer.Uninstall removes the directory and all below it.
InstallerUninstall(pluginDir) ==
    [id \in PluginIDs |->
        IF disk[id].present /\ Under(pluginDir, disk[id].Dir) THEN NoInstall ELSE disk[id]]

\* The handle the Loader builds for a plugin found on disk.
LoadedHandle(id) ==
    [ID |-> id, Type |-> TypeOf(id),
     Class |-> IF Under(StaticRootPath, disk[id].Dir) THEN "core" ELSE "external",
     Version |-> disk[id].Version, PluginDir |-> disk[id].Dir,
     Backend |-> BackendOf(id), Managed |-> TRUE]

RECURSIVE SetToSeq(_)
SetToSeq(S) ==
    IF S = {} THEN <<>>
    ELSE LET x == CHOOSE y \in S : TRUE IN <<x>> \o SetToSeq(S \ {x})

\* Loader.LoadAll(path, known): the plugins under path whose id is not known.
LoadAll(path, known) ==
    SetToSeq({LoadedHandle(id) : id \in {i \in PluginIDs :
                                            /\ disk[i].present
                                            /\ Under(path, disk[i].Dir)
                                            /\ i \notin known}})

\* Loader.LoadWithFactory(path, factory): a core backend plugin served by the factory.
LoadWithFactory(pluginID) ==
    [ID |-> pluginID, Type |-> "datasource", Class |-> "core", Version |-> "",
     PluginDir |-> [abs |-> TRUE, elems |-> Append(StaticRootPath.elems, DirElem(pluginID))],
     Backend |-> TRUE, Managed |-> FALSE]

(***************************************************************************)
(* The caller goroutine: Install, Uninstall, Register.                     *)
(***************************************************************************)
NoCall == [op |-> "", id |-> "", version |-> "", installDir |-> NoDir]

\* An access to m.plugins: the function that makes it, whether it reads or writes
\* the map, and the lock of m.pluginsMu it holds meanwhile ("" when none).
NoAccess == [op |-> "", mode |-> "", lock |-> ""]
Access(op, mode, lock) == [op |-> op, mode |-> mode, lock |-> lock]

\* m.pluginsMu is read-locked (by stop, until its wg.Wait returns): a Lock() waits.
RLockHeld == stopper.lock = "RLock"
NoResult == [op |-> "", id |-> "", version |-> "", err |-> Nil, dir |-> NoDir]

\* The operation returns err: the caller holds the result at "returned".
Finish(c, err, dir) ==
    /\ pc' = "returned"
    /\ result' = [op |-> c.op, id |-> c.id, version |-> c.version, err |-> err, dir |-> dir]

\* opts.InstallDir after its defaulting.
InstallDir(c) == IF c.installDir = NoDir THEN PluginsPath ELSE c.installDir

\* Install up to the update-info lookup: the lookup of the installed handle and
\* the two rejections.
InstallCall(pluginID, version, installDir) ==
    /\ pc = "idle"
    /\ LET c == [op |-> "Install", id |-> pluginID, version |-> version,
                 installDir |-> installDir]
           p == Plugin(pluginID)
       IN  /\ call' = c
           /\ trace' = <<>>
           /\ plugin' = p
           /\ IF p # NoPlugin
              THEN IF ~IsExternalPlugin(p)
                   THEN Finish(c, ErrInstallCorePlugin, NoDir)
                   ELSE IF handle[p].Version = version
                   THEN Finish(c, DuplicatePluginError, handle[p].PluginDir)
                   ELSE pc' = "GetUpdateInfo" /\ result' = result
              ELSE pc' = "InstallerInstall" /\ result' = result
    /\ UNCHANGED <<callVars, dispVars, stopVars, runVars, sigVars, mapAccess>>
    /\ UNCHANGED <<plugins, handle, decommissioned, running, watch, disk, queue>>

\* GetUpdateInfo as it would be if Install went on to the Installer without
\* uninstalling the installed version.
GetUpdateInfoWithoutUninstall ==
    /\ pc = "GetUpdateInfo"
    /\ trace' = Append(trace, "GetUpdateInfo")
    /\ \E ok \in BOOLEAN :
          IF ok THEN pc' = "InstallerInstall" /\ result' = result
          ELSE Finish(call, ErrGetUpdateInfo, NoDir)
    /\ UNCHANGED <<callVars, dispVars, stopVars, runVars, sigVars, mapAccess>>
    /\ UNCHANGED <<plugins, handle, decommissioned, running, watch, disk, call, plugin, queue>>

\* m.pluginInstaller.GetUpdateInfo, then the call of Uninstall.
GetUpdateInfo ==
    /\ pc = "GetUpdateInfo"
    /\ trace' = Append(trace, "GetUpdateInfo")
    /\ \E ok \in BOOLEAN :
          IF ok THEN pc' = "Uninstall" /\ result' = result
          ELSE Finish(call, ErrGetUpdateInfo, NoDir)
    /\ UNCHANGED <<callVars, dispVars, stopVars, runVars, sigVars, mapAccess>>
    /\ UNCHANGED <<plugins, handle, decommissioned, running, watch, disk, call, plugin, queue>>

\* Uninstall returns err: to Install when Install called it, else to the caller.
UninstallReturn(c, err) ==
    IF c.op = "Install"
    THEN IF err # Nil
         THEN Finish(c, err, NoDir)
         ELSE pc' = "InstallerInstall" /\ result' = result
    ELSE Finish(c, err, NoDir)

\* UninstallChecks as it would be without the IsExternalPlugin rejection.
UninstallChecksWithoutCore(c, pluginID) ==
    LET p == Plugin(pluginID)
    IN  /\ plugin' = p
        /\ IF p = NoPlugin
           THEN UninstallReturn(c, ErrPluginNotInstalled)
           ELSE IF OutsideOfPluginDir(handle[p].PluginDir)
           THEN UninstallReturn(c, ErrUninstallOutsideOfPluginDir)
           ELSE /\ pc' = IF isRegistered(pluginID) THEN "Decommission" ELSE "InstallerUninstall"
                /\ result' = result

\* Uninstall up to unregisterAndStop: the lookup, the rejections, the security check.
UninstallChecks(c, pluginID) ==
    LET p == Plugin(pluginID)
    IN  /\ plugin' = p
        /\ IF p = NoPlugin
           THEN UninstallReturn(c, ErrPluginNotInstalled)
           ELSE IF ~IsExternalPlugin(p)
           THEN UninstallReturn(c, ErrUninstallCorePlugin)
           ELSE IF OutsideOfPluginDir(handle[p].PluginDir)
           THEN UninstallReturn(c, ErrUninstallOutsideOfPluginDir)
           ELSE /\ pc' = IF isRegistered(pluginID) THEN "Decommission" ELSE "InstallerUninstall"
                /\ result' = result

UninstallCall(pluginID) ==
    /\ pc = "idle"
    /\ LET c == [op |-> "Uninstall", id |-> pluginID, version |-> "", installDir |-> NoDir]
       IN  /\ call' = c
           /\ trace' = <<>>
           /\ UninstallChecks(c, pluginID)
    /\ UNCHANGED <<callVars, dispVars, stopVars, runVars, sigVars, mapAccess>>
    /\ UNCHANGED <<plugins, handle, decommissioned, running, watch, disk, queue>>

\* m.Uninstall(ctx, plugin.ID) as called by Install.
InstallUninstall ==
    /\ pc = "Uninstall"
    /\ UninstallChecks(call, handle[plugin].ID)
    /\ UNCHANGED <<callVars, dispVars, stopVars, runVars, sigVars, mapAccess>>
    /\ UNCHANGED <<plugins, handle, decommissioned, running, watch, disk, call, queue, trace>>

\* Decommission as it would be if unregisterAndStop removed the entry without
\* stopping the plugin.
DecommissionWithoutStop ==
    /\ pc = "Decommission"
    /\ trace' = Append(trace, "Decommission")
    /\ \E ok \in BOOLEAN :
          IF ok
          THEN /\ decommissioned' = [decommissioned EXCEPT ![plugin] = TRUE]
               /\ pc' = "delete"
               /\ result' = result
          ELSE /\ UninstallReturn(call, ErrDecommission)
               /\ UNCHANGED decommissioned
    /\ UNCHANGED <<callVars, dispVars, stopVars, runVars, sigVars, mapAccess>>
    /\ UNCHANGED <<plugins, handle, running, watch, disk, call, plugin, queue>>

\* unregisterAndStop: p.Decommission()
Decommission ==
    /\ pc = "Decommission"
    /\ trace' = Append(trace, "Decommission")
    /\ \E ok \in BOOLEAN :
          IF ok
          THEN /\ decommissioned' = [decommissioned EXCEPT ![plugin] = TRUE]
               /\ pc' = "Stop"
               /\ result' = result
          ELSE /\ UninstallReturn(call, ErrDecommission)
               /\ UNCHANGED decommissioned
    /\ UNCHANGED <<callVars, dispVars, stopVars, runVars, sigVars, mapAccess>>
    /\ UNCHANGED <<plugins, handle, running, watch, disk, call, plugin, queue>>

\* unregisterAndStop: p.Stop(ctx)
Stop ==
    /\ pc = "Stop"
    /\ trace' = Append(trace, "Stop")
    /\ \E ok \in BOOLEAN :
          IF ok
          THEN /\ running' = [running EXCEPT ![plugin] = FALSE]
               /\ pc' = "delete"
               /\ result' = result
          ELSE /\ UninstallReturn(call, ErrStop)
               /\ UNCHANGED running
    /\ UNCHANGED <<callVars, dispVars, stopVars, runVars, sigVars, mapAccess>>
    /\ UNCHANGED <<plugins, handle, decommissioned, watch, disk, call, plugin, queue>>

\* unregisterAndStop: delete(m.plugins, p.ID)
Delete ==
    /\ pc = "delete"
    /\ trace' = Append(trace, "delete")
    /\ plugins' = [plugins EXCEPT ![handle[plugin].ID] = NoPlugin]
    /\ mapAccess' = Access("unregisterAndStop", "write", "")
    /\ pc' = "InstallerUninstall"
    /\ UNCHANGED <<callVars, dispVars, stopVars, runVars, sigVars>>
    /\ UNCHANGED <<handle, decommissioned, running, watch, disk, call, plugin, queue, result>>

\* Uninstall: m.pluginInstaller.Uninstall(ctx, plugin.PluginDir)
UninstallFiles ==
    /\ pc = "InstallerUninstall"
    /\ trace' = Append(trace, "Installer.Uninstall")
    /\ \E ok \in BOOLEAN :
          IF ok
          THEN /\ disk' = InstallerUninstall(handle[plugin].PluginDir)
               /\ UninstallReturn(call, Nil)
          ELSE /\ UninstallReturn(call, ErrInstallerUninstall)
               /\ UNCHANGED disk
    /\ UNCHANGED <<callVars, dispVars, stopVars, runVars, sigVars, mapAccess>>
    /\ UNCHANGED <<plugins, handle, decommissioned, running, watch, call, plugin, queue>>

\* Install: m.pluginInstaller.Install(ctx, pluginID, version, opts.InstallDir, ...)
InstallFiles ==
    /\ pc = "InstallerInstall"
    /\ trace' = Append(trace, "Installer.Install")
    /\ \E ok \in BOOLEAN :
          IF ok
          THEN /\ disk' = InstallerInstall(call.id, call.version, InstallDir(call))
               /\ pc' = "loadPlugins"
               /\ result' = result
          ELSE /\ Finish(call, ErrInstallerInstall, NoDir)
               /\ UNCHANGED disk
    /\ UNCHANGED <<callVars, dispVars, stopVars, runVars, sigVars, mapAccess>>
    /\ UNCHANGED <<plugins, handle, decommissioned, running, watch, call, plugin, queue>>

\* loadPlugins: m.pluginLoader.LoadAll(path, m.registeredPlugins())
LoadPlugins ==
    /\ pc = "loadPlugins"
    /\ trace' = Append(trace, "LoadAll")
    /\ \E ok \in BOOLEAN :
          IF ok
          THEN LET loadedPlugins == LoadAll(InstallDir(call), registeredPlugins)
               IN  /\ queue' = loadedPlugins
                   /\ IF loadedPlugins = <<>>
                      THEN Finish(call, Nil, NoDir)
                      ELSE pc' = "registerAndStart" /\ result' = result
          ELSE /\ Finish(call, ErrLoadAll, NoDir)
               /\ UNCHANGED queue
    /\ UNCHANGED <<callVars, dispVars, stopVars, runVars, sigVars, mapAccess>>
    /\ UNCHANGED <<plugins, handle, decommissioned, running, watch, disk, call, plugin>>

\* register as it would be if it stored the handle before looking for the key.
registerOverwriting(p) ==
    [err |-> IF plugins[p.ID] # NoPlugin THEN ErrAlreadyRegistered ELSE Nil,
     plugins |-> [plugins EXCEPT ![p.ID] = NextHandle], h |-> NextHandle]

\* register(p): [err, plugins, h], the map after it and the handle object stored.
register(p) ==
    IF plugins[p.ID] # NoPlugin
    THEN [err |-> ErrAlreadyRegistered, plugins |-> plugins, h |-> NoPlugin]
    ELSE [err |-> Nil, plugins |-> [plugins EXCEPT ![p.ID] = NextHandle], h |-> NextHandle]

\* loadPlugins: one turn of its loop, registerAndStart(context.Background(), p),
\* with start and startPluginAndRestartKilledProcesses.
RegisterAndStart ==
    /\ pc = "registerAndStart"
    /\ HasFreeHandle
    /\ ~RLockHeld
    /\ LET p == Head(queue)
           r == register(p)
           h == r.h
       IN  /\ trace' = IF r.err = Nil /\ p.Managed /\ p.Backend
                        THEN trace \o <<"register", "Start">>
                        ELSE Append(trace, "register")
           /\ plugins' = r.plugins
           /\ mapAccess' = Access("register", IF r.err = Nil THEN "write" ELSE "read", "Lock")
           /\ IF r.err # Nil
              THEN /\ Finish(call, r.err, NoDir)
                   /\ UNCHANGED <<handle, running, watch, queue>>
              ELSE /\ handle' = [handle EXCEPT ![h] = p]
                   /\ IF ~(r.plugins[p.ID] # NoPlugin /\ ~decommissioned[r.plugins[p.ID]])
                      THEN /\ Finish(call, ErrIsNotRegistered, NoDir)
                           /\ UNCHANGED <<running, watch, queue>>
                      ELSE /\ IF ~p.Managed \/ ~p.Backend
                              THEN UNCHANGED <<running, watch>>
                              ELSE \E ok \in BOOLEAN :
                                      IF ok
                                      THEN /\ running' = [running EXCEPT ![h] = TRUE]
                                           /\ watch' = [watch EXCEPT ![h] = "tick"]
                                      ELSE UNCHANGED <<running, watch>>
                           /\ queue' = Tail(queue)
                           /\ IF Tail(queue) = <<>>
                              THEN Finish(call, Nil, NoDir)
                              ELSE pc' = "registerAndStart" /\ result' = result
    /\ UNCHANGED <<callVars, dispVars, stopVars, runVars, sigVars>>
    /\ UNCHANGED <<decommissioned, disk, call, plugin>>

\* The caller has looked at the result; the operation's locals are gone.
Returned ==
    /\ pc = "returned"
    /\ pc' = "idle"
    /\ call' = NoCall
    /\ plugin' = NoPlugin
    /\ queue' = <<>>
    /\ trace' = <<>>
    /\ result' = NoResult
    /\ mapAccess' = NoAccess
    /\ UNCHANGED <<callVars, dispVars, stopVars, runVars, sigVars>>
    /\ UNCHANGED <<plugins, handle, decommissioned, running, watch, disk>>

\* Register(pluginID, factory)
RegisterCall(pluginID) ==
    /\ pc = "idle"
    /\ HasFreeHandle
    /\ ~RLockHeld
    /\ LET c == [op |-> "Register", id |-> pluginID, version |-> "", installDir |-> NoDir]
       IN  /\ call' = c
           /\ IF isRegistered(pluginID)
              THEN /\ Finish(c, ErrBackendAlreadyRegistered, NoDir)
                   /\ trace' = <<>>
                   /\ UNCHANGED <<plugins, handle, mapAccess>>
              ELSE \E ok \in BOOLEAN :
                      IF ~ok
                      THEN /\ Finish(c, ErrLoadWithFactory, NoDir)
                           /\ trace' = <<"LoadWithFactory">>
                           /\ UNCHANGED <<plugins, handle, mapAccess>>
                      ELSE LET p == LoadWithFactory(pluginID)
                               r == register(p)
                           IN  /\ trace' = <<"LoadWithFactory", "register">>
                               /\ plugins' = r.plugins
                               /\ mapAccess' = Access("register",
                                                      IF r.err = Nil THEN "write" ELSE "read",
                                                      "Lock")
                               /\ handle' = IF r.err = Nil
                                            THEN [handle EXCEPT ![r.h] = p]
                                            ELSE handle
                               /\ Finish(c, r.err, NoDir)
    /\ UNCHANGED <<callVars, dispVars, stopVars, runVars, sigVars>>
    /\ UNCHANGED <<decommissioned, running, watch, disk, plugin, queue>>

(***************************************************************************)
(* restartKilledProcess, one goroutine per started handle.  Its context is *)
(* the context.Background() loadPlugins passes, which is never done.       *)
(***************************************************************************)
\* case <-ticker.C: if p.IsDecommissioned() { return nil }
WatchTick(h) ==
    /\ watch[h] = "tick"
    /\ watch' = [watch EXCEPT ![h] = IF IsDecommissioned(h) THEN "done" ELSE "exited"]
    /\ UNCHANGED <<callVars, dispVars, stopVars, runVars, sigVars, mapAccess>>
    /\ UNCHANGED <<plugins, handle, decommissioned, running, disk,
                   pc, call, plugin, queue, trace, result>>

\* if !p.Exited() { continue }
WatchExited(h) ==
    /\ watch[h] = "exited"
    /\ watch' = [watch EXCEPT ![h] = IF Exited(h) THEN "start" ELSE "tick"]
    /\ UNCHANGED <<callVars, dispVars, stopVars, runVars, sigVars, mapAccess>>
    /\ UNCHANGED <<plugins, handle, decommissioned, running, disk,
                   pc, call, plugin, queue, trace, result>>

\* if err := p.Start(ctx); err != nil { continue }
WatchStart(h) ==
    /\ watch[h] = "start"
    /\ watch' = [watch EXCEPT ![h] = "tick"]
    /\ \E ok \in BOOLEAN :
          running' = IF ok THEN [running EXCEPT ![h] = TRUE] ELSE running
    /\ UNCHANGED <<callVars, dispVars, stopVars, runVars, sigVars, mapAccess>>
    /\ UNCHANGED <<plugins, handle, decommissioned, disk,
                   pc, call, plugin, queue, trace, result>>

\* The plugin process dies.
ProcessExit(h) ==
    /\ running[h]
    /\ running' = [running EXCEPT ![h] = FALSE]
    /\ UNCHANGED <<callVars, dispVars, stopVars, runVars, sigVars, mapAccess>>
    /\ UNCHANGED <<plugins, handle, decommissioned, watch, disk,
                   pc, call, plugin, queue, trace, result>>

(***************************************************************************)
(* The state after ProvideService: init has loaded the core plugin B and,  *)
(* when one is on disk, the external plugin A, whose first Start may have  *)
(* failed (then no crash-watch goroutine was launched).                    *)
(***************************************************************************)
CoreB ==
    [ID |-> "B", Type |-> "panel", Class |-> "core", Version |-> "1.0",
     PluginDir |-> [abs |-> TRUE, elems |-> Append(StaticRootPath.elems, DirElem("B"))],
     Backend |-> FALSE, Managed |-> TRUE]

ExternalA(dir) ==
    [ID |-> "A", Type |-> "datasource", Class |-> "external", Version |-> "1.0",
     PluginDir |-> dir, Backend |-> TRUE, Managed |-> TRUE]

\* opts.InstallDir as the callers of Install give it: unset, or a directory.
InstallDirs == {NoDir, DirSibling}

\* The registry after init when only the core plugin B is on disk.
RegistryWithoutA ==
    /\ plugins = [id \in PluginIDs |-> IF id = "B" THEN 1 ELSE NoPlugin]
    /\ handle = [h \in Handles |-> IF h = 1 THEN CoreB ELSE NoHandle]
    /\ disk = [id \in PluginIDs |->
                  IF id = "B" THEN [present |-> TRUE, Version |-> "1.0", Dir |-> CoreB.PluginDir]
                  ELSE NoInstall]
    /\ running = [h \in Handles |-> FALSE]
    /\ watch = [h \in Handles |-> "none"]

\* The registry after init when the external plugin A is on disk in dir; started
\* tells whether its first Start succeeded.
RegistryWithA(dir, started) ==
    /\ plugins = [id \in PluginIDs |-> IF id = "B" THEN 1 ELSE 2]
    /\ handle = [h \in Handles |->
                    IF h = 1 THEN CoreB ELSE IF h = 2 THEN ExternalA(dir) ELSE NoHandle]
    /\ disk = [id \in PluginIDs |->
                  [present |-> TRUE, Version |-> "1.0",
                   Dir |-> IF id = "B" THEN CoreB.PluginDir ELSE dir]]
    /\ running = [h \in Handles |-> h = 2 /\ started]
    /\ watch = [h \in Handles |-> IF h = 2 /\ started THEN "tick" ELSE "none"]

InitRegistry ==
    \/ RegistryWithoutA
    \/ \E dir \in DirChoices, started \in BOOLEAN : RegistryWithA(dir, started)

\* No operation of the caller is under way.
InitCaller ==
    /\ pc = "idle"
    /\ call = NoCall
    /\ plugin = NoPlugin
    /\ queue = <<>>
    /\ trace = <<>>
    /\ result = NoResult
    /\ mapAccess = NoAccess

InitManager ==
    /\ decommissioned = [h \in Handles |-> FALSE]
    /\ InitCaller
    /\ InitRegistry

(***************************************************************************)
(* The resource call: CallResource, callResourceInternal, the stream and   *)
(* flushStream.  The goroutine of the request runs CallResource and, in    *)
(* it, the plugin's CallResource, which sends chunks on the stream; the    *)
(* relay goroutine runs flushStream.                                       *)
(***************************************************************************)
\* Chunks a plugin may deliver in one resource call.
MaxChunks == 3

ErrAccessDenied == "access denied"
ErrParseURL == "url.Parse failed"
ErrReadBody == "failed to read request body"
ErrPluginNotRegistered == "plugin not registered"
ErrMethodNotImplemented == "method not implemented"
ErrPluginUnavailable == "plugin unavailable"
ErrPluginFailed == "plugin failed"
ErrEmptyResponse == "received empty resource response"
ErrReceive == "failed to receive response from resource call"
ErrCloseClosed == "cannot close a closed stream"
\* The plugin's CallResource did not return: Send panicked in it.
Panic == "panic"

\* What a plugin's CallResource may return.
PluginErrors == {Nil, ErrMethodNotImplemented, ErrPluginUnavailable, ErrPluginFailed}

\* The keys of resp.Headers, a map[string][]string the plugin fills: a key is any
\* string, in canonical form or not.
HeaderKeys == {"Content-Type", "Set-Cookie", "X-Other", "content-type", "set-cookie"}
PluginValue(k) ==
    IF k = "Content-Type" THEN "text/plain"
    ELSE IF k = "content-type" THEN "text/html"
    ELSE IF k = "Set-Cookie" THEN "sid=1"
    ELSE IF k = "set-cookie" THEN "sid=2"
    ELSE "x"

\* textproto.CanonicalMIMEHeaderKey, which http.Header.Add applies to the key:
\* the first letter and every letter after a hyphen in upper case, the rest in
\* lower case.
CanonicalMIMEHeaderKey(k) ==
    IF k = "content-type" THEN "Content-Type"
    ELSE IF k = "set-cookie" THEN "Set-Cookie"
    ELSE k

\* resp.Headers: nil, or a map given as its set of <<key, value>> pairs.
NilHeaders == [nil |-> TRUE, kv |-> {}]
HeaderChoices ==
    {NilHeaders} \cup
    {[nil |-> FALSE, kv |-> {<<k, PluginValue(k)>> : k \in K}] : K \in SUBSET HeaderKeys}

\* The headers a plugin may put on the chunk it sends after n chunks: any on the
\* first chunk, none or all of them on a later one.
AllHeaders == [nil |-> FALSE, kv |-> {<<k, PluginValue(k)>> : k \in HeaderKeys}]
HeadersAfter(n) == IF n = 0 THEN HeaderChoices ELSE {NilHeaders, AllHeaders}

StatusOK == 200
NoChunk == [Headers |-> NilHeaders, Status |-> 0, Body |-> 0]

\* The n-th chunk of a call carries body n.
Chunk(headers, n) == [Headers |-> headers, Status |-> StatusOK, Body |-> n]

NewStream == [closed |-> FALSE, chan |-> "open"]

childCtxDone == reqCtxDone \/ cancelled

\* A panic no goroutine recovers from ends the process.
Crashed == rpc = "panicked"

\* No resource call is under way.
InitNoCall ==
    /\ cpc = "none"
    /\ rpc = "none"
    /\ pCtx = ""
    /\ reqCtxDone = FALSE
    /\ cancelled = FALSE
    /\ stream = NewStream
    /\ sending = NoChunk
    /\ resp = NoChunk
    /\ processedStreams = 0
    /\ flushStreamErr = Nil
    /\ w = <<>>
    /\ sent = <<>>
    /\ pluginErr = Nil
    /\ retErr = Nil
    /\ respCode = 0
    /\ calls = <<>>

handleCallResourceError(err) ==
    IF err = ErrPluginUnavailable THEN 503
    ELSE IF err = ErrMethodNotImplemented THEN 404
    ELSE 500

\* CallResource: m.requestValidator.Validate, then url.Parse of the path.
Validate ==
    /\ cpc = "CallResource"
    /\ calls' = Append(calls, "Validate")
    /\ \E parsed \in BOOLEAN :
          IF validateErr # Nil
          THEN retErr' = validateErr /\ respCode' = 403 /\ cpc' = "done"
          ELSE IF ~parsed
          THEN /\ retErr' = ErrParseURL
               /\ respCode' = handleCallResourceError(ErrParseURL)
               /\ cpc' = "done"
          ELSE cpc' = "callResourceInternal" /\ UNCHANGED <<retErr, respCode>>
    /\ UNCHANGED <<rpc, pCtx, reqCtxDone, cancelled, stream, sending, resp,
                   processedStreams, flushStreamErr, w, sent, pluginErr>>
    /\ UNCHANGED <<mgrVars, dispVars, stopVars, runVars, sigVars>>

\* callResourceInternal up to p.CallResource: the lookup, the read of the request
\* body, the stream, the relay goroutine.
callResourceInternal ==
    /\ cpc = "callResourceInternal"
    /\ LET p == Plugin(pCtx)
       IN  IF p = NoPlugin
           THEN /\ retErr' = ErrPluginNotRegistered
                /\ respCode' = handleCallResourceError(ErrPluginNotRegistered)
                /\ cpc' = "done"
                /\ UNCHANGED <<rpc, calls>>
           ELSE \E read \in BOOLEAN :
                   IF ~read
                   THEN /\ retErr' = ErrReadBody
                        /\ respCode' = handleCallResourceError(ErrReadBody)
                        /\ cpc' = "done"
                        /\ UNCHANGED <<rpc, calls>>
                   ELSE /\ cpc' = "plugin"
                        /\ rpc' = "Recv"
                        /\ calls' = Append(calls, "CallResource")
                        /\ UNCHANGED <<retErr, respCode>>
    /\ UNCHANGED <<pCtx, reqCtxDone, cancelled, stream, sending, resp,
                   processedStreams, flushStreamErr, w, sent, pluginErr>>
    /\ UNCHANGED <<mgrVars, dispVars, stopVars, runVars, sigVars>>

\* The plugin calls stream.Send(chunk): the closed check of Send.
PluginSend(headers) ==
    /\ cpc = "plugin"
    /\ ~Crashed
    /\ Len(sent) < MaxChunks
    /\ headers \in HeadersAfter(Len(sent))
    /\ IF stream.closed
       THEN UNCHANGED <<cpc, sending>>
       ELSE cpc' = "Send" /\ sending' = Chunk(headers, Len(sent) + 1)
    /\ UNCHANGED <<rpc, pCtx, reqCtxDone, cancelled, stream, resp, processedStreams,
                   flushStreamErr, w, sent, pluginErr, retErr, respCode, calls>>
    /\ UNCHANGED <<mgrVars, dispVars, stopVars, runVars, sigVars>>

\* Send: case <-s.ctx.Done(): return errors.New("cancelled")
SendCancelled ==
    /\ cpc = "Send"
    /\ ~Crashed
    /\ childCtxDone
    /\ cpc' = "plugin"
    /\ sending' = NoChunk
    /\ UNCHANGED <<rpc, pCtx, reqCtxDone, cancelled, stream, resp, processedStreams,
                   flushStreamErr, w, sent, pluginErr, retErr, respCode, calls>>
    /\ UNCHANGED <<mgrVars, dispVars, stopVars, runVars, sigVars>>

\* Send: case s.stream <- res, on a channel that Close has closed: Go panics.
SendOnClosed ==
    /\ cpc = "Send"
    /\ ~Crashed
    /\ stream.chan = "closed"
    /\ cpc' = "deferClose"
    /\ sending' = NoChunk
    /\ pluginErr' = Panic
    /\ UNCHANGED <<rpc, pCtx, reqCtxDone, cancelled, stream, resp, processedStreams,
                   flushStreamErr, w, sent, retErr, respCode, calls>>
    /\ UNCHANGED <<mgrVars, dispVars, stopVars, runVars, sigVars>>

\* Send's s.stream <- res meets Recv's <-s.stream: the channel is unbuffered.
Transfer ==
    /\ cpc = "Send"
    /\ rpc = "Recv"
    /\ stream.chan = "open"
    /\ sent' = Append(sent, sending)
    /\ resp' = sending
    /\ sending' = NoChunk
    /\ cpc' = "plugin"
    /\ rpc' = "Process"
    /\ UNCHANGED <<pCtx, reqCtxDone, cancelled, stream, processedStreams,
                   flushStreamErr, w, pluginErr, retErr, respCode, calls>>
    /\ UNCHANGED <<mgrVars, dispVars, stopVars, runVars, sigVars>>

\* What "return flushStreamErr" may read: the relay goroutine writes the variable
\* with no synchronisation before this read, so once it has written, the read
\* yields the value written or the nil before it.
ReadFlushStreamErr == IF rpc = "done" THEN {flushStreamErr, Nil} ELSE {Nil}

\* p.CallResource returns e; callResourceInternal evaluates its return statement.
PluginReturn(e) ==
    /\ cpc = "plugin"
    /\ ~Crashed
    /\ pluginErr' = e
    /\ IF e # Nil THEN retErr' = e ELSE retErr' \in ReadFlushStreamErr
    /\ cpc' = "deferClose"
    /\ UNCHANGED <<rpc, pCtx, reqCtxDone, cancelled, stream, sending, resp,
                   processedStreams, flushStreamErr, w, sent, respCode, calls>>
    /\ UNCHANGED <<mgrVars, dispVars, stopVars, runVars, sigVars>>

\* The deferred stream.Close(): if s.closed { return errors.New(...) }
DeferClose ==
    /\ cpc = "deferClose"
    /\ ~Crashed
    /\ cpc' = IF stream.closed THEN "Wait" ELSE "deferCloseChan"
    /\ UNCHANGED <<rpc, pCtx, reqCtxDone, cancelled, stream, sending, resp, processedStreams,
                   flushStreamErr, w, sent, pluginErr, retErr, respCode, calls>>
    /\ UNCHANGED <<mgrVars, dispVars, stopVars, runVars, sigVars>>

\* The deferred stream.Close(): close(s.stream).  Closing a closed channel panics:
\* wg.Wait() is skipped, the deferred cancel() runs, the call unwinds.
DeferCloseChan ==
    /\ cpc = "deferCloseChan"
    /\ ~Crashed
    /\ IF stream.chan = "closed"
       THEN cpc' = "panicked" /\ cancelled' = TRUE /\ UNCHANGED stream
       ELSE /\ stream' = [stream EXCEPT !.chan = "closed"]
            /\ cpc' = "deferSetClosed"
            /\ UNCHANGED cancelled
    /\ UNCHANGED <<rpc, pCtx, reqCtxDone, sending, resp, processedStreams,
                   flushStreamErr, w, sent, pluginErr, retErr, respCode, calls>>
    /\ UNCHANGED <<mgrVars, dispVars, stopVars, runVars, sigVars>>

\* The deferred stream.Close(): s.closed = true
DeferSetClosed ==
    /\ cpc = "deferSetClosed"
    /\ ~Crashed
    /\ stream' = [stream EXCEPT !.closed = TRUE]
    /\ cpc' = "Wait"
    /\ UNCHANGED <<rpc, pCtx, reqCtxDone, cancelled, sending, resp, processedStreams,
                   flushStreamErr, w, sent, pluginErr, retErr, respCode, calls>>
    /\ UNCHANGED <<mgrVars, dispVars, stopVars, runVars, sigVars>>

\* wg.Wait() returns, the deferred cancel() runs, callResourceInternal returns and
\* CallResource hands a non-nil error to handleCallResourceError.
Wait ==
    /\ cpc = "Wait"
    /\ rpc = "done"
    /\ cancelled' = TRUE
    /\ IF pluginErr = Panic
       THEN cpc' = "panicked" /\ UNCHANGED respCode
       ELSE /\ cpc' = "done"
            /\ respCode' = IF retErr # Nil THEN handleCallResourceError(retErr) ELSE respCode
    /\ UNCHANGED <<rpc, pCtx, reqCtxDone, stream, sending, resp, processedStreams,
                   flushStreamErr, w, sent, pluginErr, retErr, calls>>
    /\ UNCHANGED <<mgrVars, dispVars, stopVars, runVars, sigVars>>

\* flushStream: Recv returns s.ctx.Err()
RecvCancelled ==
    /\ rpc = "Recv"
    /\ childCtxDone
    /\ IF processedStreams = 0
       THEN flushStreamErr' = ErrReceive /\ rpc' = "done"
       ELSE rpc' = "Close" /\ UNCHANGED flushStreamErr
    /\ UNCHANGED <<cpc, pCtx, reqCtxDone, cancelled, stream, sending, resp, processedStreams,
                   w, sent, pluginErr, retErr, respCode, calls>>
    /\ UNCHANGED <<mgrVars, dispVars, stopVars, runVars, sigVars>>

\* flushStream: Recv returns io.EOF, the channel is closed.
RecvEOF ==
    /\ rpc = "Recv"
    /\ stream.chan = "closed"
    /\ flushStreamErr' = IF processedStreams = 0 THEN ErrEmptyResponse ELSE Nil
    /\ rpc' = "done"
    /\ UNCHANGED <<cpc, pCtx, reqCtxDone, cancelled, stream, sending, resp, processedStreams,
                   w, sent, pluginErr, retErr, respCode, calls>>
    /\ UNCHANGED <<mgrVars, dispVars, stopVars, runVars, sigVars>>

\* CommitsHeaders as it would be without the test of processedStreams.
CommitsHeadersOfEveryChunk(n, r) == ~r.Headers.nil

\* Whether flushStream commits headers and status for the chunk r it received
\* after n chunks.
CommitsHeaders(n, r) == n = 0 /\ ~r.Headers.nil

\* The headers w.Header() holds after flushStream has added those of a first chunk
\* with headers kv: the map keys are compared as the plugin wrote them, and
\* w.Header().Add stores each value under the canonical form of its key.
ForwardedHeaders(kv) ==
    LET withType == IF \E h \in kv : h[1] = "Content-Type"
                    THEN kv
                    ELSE kv \cup {<<"Content-Type", "application/json">>}
    IN  {<<CanonicalMIMEHeaderKey(h[1]), h[2]>> : h \in {g \in withType : g[1] # "Set-Cookie"}}

WriteHeader(r) ==
    [op |-> "WriteHeader", headers |-> ForwardedHeaders(r.Headers.kv),
     status |-> r.Status, body |-> 0]
Write(r) == [op |-> "Write", headers |-> {}, status |-> 0, body |-> r.Body]

\* flushStream: one chunk is written to w.
Process ==
    /\ rpc = "Process"
    /\ w' = IF CommitsHeaders(processedStreams, resp)
            THEN w \o <<WriteHeader(resp), Write(resp)>>
            ELSE Append(w, Write(resp))
    /\ processedStreams' = processedStreams + 1
    /\ resp' = NoChunk
    /\ rpc' = "Recv"
    /\ UNCHANGED <<cpc, pCtx, reqCtxDone, cancelled, stream, sending,
                   flushStreamErr, sent, pluginErr, retErr, respCode, calls>>
    /\ UNCHANGED <<mgrVars, dispVars, stopVars, runVars, sigVars>>

\* flushStream's stream.Close(): if s.closed { return errors.New(...) }
RelayClose ==
    /\ rpc = "Close"
    /\ IF stream.closed
       THEN flushStreamErr' = ErrCloseClosed /\ rpc' = "done"
       ELSE rpc' = "CloseChan" /\ UNCHANGED flushStreamErr
    /\ UNCHANGED <<cpc, pCtx, reqCtxDone, cancelled, stream, sending, resp, processedStreams,
                   w, sent, pluginErr, retErr, respCode, calls>>
    /\ UNCHANGED <<mgrVars, dispVars, stopVars, runVars, sigVars>>

\* flushStream's stream.Close(): close(s.stream); a closed channel makes it panic.
RelayCloseChan ==
    /\ rpc = "CloseChan"
    /\ IF stream.chan = "closed"
       THEN rpc' = "panicked" /\ UNCHANGED stream
       ELSE rpc' = "SetClosed" /\ stream' = [stream EXCEPT !.chan = "closed"]
    /\ UNCHANGED <<cpc, pCtx, reqCtxDone, cancelled, sending, resp, processedStreams,
                   flushStreamErr, w, sent, pluginErr, retErr, respCode, calls>>
    /\ UNCHANGED <<mgrVars, dispVars, stopVars, runVars, sigVars>>

\* flushStream's stream.Close(): s.closed = true; flushStream returns nil.
RelaySetClosed ==
    /\ rpc = "SetClosed"
    /\ stream' = [stream EXCEPT !.closed = TRUE]
    /\ flushStreamErr' = Nil
    /\ rpc' = "done"
    /\ UNCHANGED <<cpc, pCtx, reqCtxDone, cancelled, sending, resp, processedStreams,
                   w, sent, pluginErr, retErr, respCode, calls>>
    /\ UNCHANGED <<mgrVars, dispVars, stopVars, runVars, sigVars>>

\* The client goes away: the context of the request is cancelled.
CancelRequest ==
    /\ cpc \notin {"none", "done", "panicked"}
    /\ ~Crashed
    /\ ~reqCtxDone
    /\ reqCtxDone' = TRUE
    /\ UNCHANGED <<cpc, rpc, pCtx, cancelled, stream, sending, resp, processedStreams,
                   flushStreamErr, w, sent, pluginErr, retErr, respCode, calls>>
    /\ UNCHANGED <<mgrVars, dispVars, stopVars, runVars, sigVars>>

(***************************************************************************)
(* The other dispatcher operations: QueryData, CollectMetrics, CheckHealth. *)
(* Each runs in the goroutine of its caller: the lookup (and for           *)
(* CheckHealth the validation before it), then the plugin's capability.    *)
(***************************************************************************)
DispatchOps == {"QueryData", "CollectMetrics", "CheckHealth"}

ErrHealthCheckFailed == "health check failed"

\* An error as the dispatcher returns it: err as it is (msg empty), or err wrapped
\* by errutil.Wrap(msg, err).
NoWrap(err) == [msg |-> "", err |-> err]
Wrap(msg, err) == [msg |-> msg, err |-> err]

\* What a dispatcher operation returns: the kind of its result ("" for nil), the
\* status of a CheckHealthResult the manager builds, and the error.
Return(res, status, err) == [res |-> res, status |-> status, err |-> err]
NoReturn == Return("", 0, NoWrap(Nil))

\* No dispatcher operation is under way.
InitNoDispatch ==
    /\ dpc = "none"
    /\ dop = ""
    /\ dret = NoReturn
    /\ validateErr = Nil

\* The variables of the resource call a dispatcher operation leaves alone.
streamVars == <<cpc, rpc, pCtx, reqCtxDone, cancelled, stream, sending, resp,
                processedStreams, flushStreamErr, w, sent, retErr, respCode>>

\* QueryData as it would be if it failed for an unregistered plugin as the other
\* operations do.
QueryDataNotRegistered ==
    /\ dpc = "QueryData"
    /\ IF Plugin(pCtx) = NoPlugin
       THEN /\ dret' = Return("", 0, NoWrap(ErrPluginNotRegistered))
            /\ dpc' = "done"
            /\ UNCHANGED calls
       ELSE /\ dpc' = "plugin"
            /\ calls' = Append(calls, "QueryData")
            /\ UNCHANGED dret
    /\ UNCHANGED <<streamVars, pluginErr, dop, validateErr, mgrVars, stopVars, runVars, sigVars>>

\* QueryData up to plugin.QueryData: the lookup.
QueryData ==
    /\ dpc = "QueryData"
    /\ IF Plugin(pCtx) = NoPlugin
       THEN /\ dret' = Return("empty", 0, NoWrap(Nil))
            /\ dpc' = "done"
            /\ UNCHANGED calls
       ELSE /\ dpc' = "plugin"
            /\ calls' = Append(calls, "QueryData")
            /\ UNCHANGED dret
    /\ UNCHANGED <<streamVars, pluginErr, dop, validateErr, mgrVars, stopVars, runVars, sigVars>>

\* CollectMetrics up to p.CollectMetrics: the lookup.
CollectMetrics ==
    /\ dpc = "CollectMetrics"
    /\ IF Plugin(pCtx) = NoPlugin
       THEN /\ dret' = Return("", 0, NoWrap(ErrPluginNotRegistered))
            /\ dpc' = "done"
            /\ UNCHANGED calls
       ELSE /\ dpc' = "plugin"
            /\ calls' = Append(calls, "CollectMetrics")
            /\ UNCHANGED dret
    /\ UNCHANGED <<streamVars, pluginErr, dop, validateErr, mgrVars, stopVars, runVars, sigVars>>

\* CheckHealth as it would be if it looked the plugin up before validating.
CheckHealthLookupFirst ==
    /\ dpc = "CheckHealth"
    /\ IF Plugin(pCtx) = NoPlugin
       THEN /\ dret' = Return("", 0, NoWrap(ErrPluginNotRegistered))
            /\ dpc' = "done"
            /\ UNCHANGED calls
       ELSE IF validateErr # Nil
       THEN /\ dret' = Return("result", 403, NoWrap(Nil))
            /\ dpc' = "done"
            /\ calls' = Append(calls, "Validate")
       ELSE /\ dpc' = "plugin"
            /\ calls' = calls \o <<"Validate", "CheckHealth">>
            /\ UNCHANGED dret
    /\ UNCHANGED <<streamVars, pluginErr, dop, validateErr, mgrVars, stopVars, runVars, sigVars>>

\* CheckHealth up to p.CheckHealth: m.requestValidator.Validate, then the lookup.
CheckHealth ==
    /\ dpc = "CheckHealth"
    /\ IF validateErr # Nil
       THEN /\ dret' = Return("result", 403, NoWrap(Nil))
            /\ dpc' = "done"
            /\ calls' = Append(calls, "Validate")
       ELSE IF Plugin(pCtx) = NoPlugin
       THEN /\ dret' = Return("", 0, NoWrap(ErrPluginNotRegistered))
            /\ dpc' = "done"
            /\ calls' = Append(calls, "Validate")
       ELSE /\ dpc' = "plugin"
            /\ calls' = calls \o <<"Validate", "CheckHealth">>
            /\ UNCHANGED dret
    /\ UNCHANGED <<streamVars, pluginErr, dop, validateErr, mgrVars, stopVars, runVars, sigVars>>

\* The error each operation returns when the plugin's capability returned e # nil.
Normalise(op, e) ==
    IF op = "CollectMetrics" THEN NoWrap(e)
    ELSE IF e \in {ErrMethodNotImplemented, ErrPluginUnavailable} THEN NoWrap(e)
    ELSE IF op = "QueryData" THEN Wrap("failed to query data", e)
    ELSE Wrap("failed to check plugin health", ErrHealthCheckFailed)

\* The plugin's capability returns e, and the operation returns.
DispatchReturn(e) ==
    /\ dpc = "plugin"
    /\ pluginErr' = e
    /\ dret' = IF e = Nil THEN Return("resp", 0, NoWrap(Nil)) ELSE Return("", 0, Normalise(dop, e))
    /\ dpc' = "done"
    /\ UNCHANGED <<streamVars, calls, dop, validateErr, mgrVars, stopVars, runVars, sigVars>>

(***************************************************************************)
(* stop and Renderer, run by goroutines of their own while the caller      *)
(* installs, uninstalls and registers.  Both range over m.plugins; a range *)
(* takes one step per entry.  m.pluginsMu is held over more than one step  *)
(* only by stop, from its RLock to the RUnlock after wg.Wait.              *)
(***************************************************************************)
\* Calls of stop in sequence.
MaxStops == 2

\* A goroutine that ranges over m.plugins: its position, the lock of m.pluginsMu
\* it holds, the map as it was when the range began, the keys the range has yet
\* to produce, the handles stop invoked Stop on, the Stop goroutines wg waits
\* for, and the calls of stop that have returned.
Idle(runs) ==
    [pc |-> "none", lock |-> "", seen |-> [id \in PluginIDs |-> NoPlugin], rest |-> {},
     invoked |-> {}, wg |-> {}, runs |-> runs]

InitNoStop ==
    /\ stopper = Idle(0)
    /\ renderer = Idle(0)

\* The map was written since the range of g began: the range and the write race,
\* and the runtime may stop the process ("concurrent map iteration and map write").
Raced(g) == plugins # g.seen

\* The next entry a range produces: a key it has not produced yet, with the handle
\* the map holds for it; a key deleted meanwhile may be produced or not.
Produces(g, id) == id \in g.rest /\ g.seen[id] # NoPlugin

\* A fatal error of the runtime ends the process.
Fatal == stopper.pc = "fatal" \/ renderer.pc = "fatal"

\* stop: m.pluginsMu.RLock(), and the range begins.
StopBegin ==
    /\ stopper.pc \in {"none", "done"}
    /\ stopper.runs < MaxStops
    /\ ~Fatal
    /\ stopper' = [stopper EXCEPT !.pc = "range", !.lock = "RLock", !.seen = plugins,
                                   !.rest = registeredPlugins, !.invoked = {}, !.wg = {}]
    /\ UNCHANGED <<mgrVars, callVars, dispVars, renderer, runVars, sigVars>>

\* stop: one turn of the range, wg.Add(1) and go func(p, ctx); after the last
\* entry, wg.Wait().
StopRange ==
    /\ stopper.pc = "range"
    /\ ~Fatal
    /\ \/ /\ Raced(stopper)
          /\ stopper' = [stopper EXCEPT !.pc = "fatal"]
       \/ /\ stopper.rest = {}
          /\ stopper' = [stopper EXCEPT !.pc = "wait"]
       \/ \E id \in stopper.rest :
             \/ /\ Produces(stopper, id)
                /\ stopper' = [stopper EXCEPT !.rest = @ \ {id},
                                               !.invoked = @ \cup {stopper.seen[id]},
                                               !.wg = @ \cup {stopper.seen[id]}]
             \/ /\ plugins[id] = NoPlugin
                /\ stopper' = [stopper EXCEPT !.rest = @ \ {id}]
    /\ UNCHANGED <<mgrVars, callVars, dispVars, renderer, runVars, sigVars>>

\* stop: the goroutine of handle h: p.Stop(ctx), its error logged, wg.Done().
StopOne(h) ==
    /\ h \in stopper.wg
    /\ ~Fatal
    /\ \E ok \in BOOLEAN :
          running' = IF ok THEN [running EXCEPT ![h] = FALSE] ELSE running
    /\ stopper' = [stopper EXCEPT !.wg = @ \ {h}]
    /\ UNCHANGED <<plugins, handle, decommissioned, watch, disk, pc, call, plugin, queue,
                   trace, result, mapAccess>>
    /\ UNCHANGED <<callVars, dispVars, renderer, runVars, sigVars>>

\* stop: wg.Wait() returns, m.pluginsMu.RUnlock(), stop returns.
StopWait ==
    /\ stopper.pc = "wait"
    /\ stopper.wg = {}
    /\ ~Fatal
    /\ stopper' = [stopper EXCEPT !.pc = "done", !.lock = "", !.runs = @ + 1]
    /\ UNCHANGED <<mgrVars, callVars, dispVars, renderer, runVars, sigVars>>

IsRenderer(h) == handle[h].Type = "renderer"

\* Renderer: the range begins, with no lock taken.
RendererBegin ==
    /\ renderer.pc \in {"none", "done"}
    /\ ~Fatal
    /\ renderer' = [renderer EXCEPT !.pc = "range", !.seen = plugins,
                                     !.rest = registeredPlugins]
    /\ UNCHANGED <<mgrVars, callVars, dispVars, stopper, runVars, sigVars>>

\* Renderer: one turn of the range; it returns the first renderer, or nil.
RendererRange ==
    /\ renderer.pc = "range"
    /\ ~Fatal
    /\ \/ /\ Raced(renderer)
          /\ renderer' = [renderer EXCEPT !.pc = "fatal"]
       \/ /\ renderer.rest = {}
          /\ renderer' = [renderer EXCEPT !.pc = "done"]
       \/ \E id \in renderer.rest :
             \/ /\ Produces(renderer, id)
                /\ renderer' = IF IsRenderer(renderer.seen[id])
                               THEN [renderer EXCEPT !.pc = "done", !.rest = {}]
                               ELSE [renderer EXCEPT !.rest = @ \ {id}]
             \/ /\ plugins[id] = NoPlugin
                /\ renderer' = [renderer EXCEPT !.rest = @ \ {id}]
    /\ UNCHANGED <<mgrVars, callVars, dispVars, stopper, runVars, sigVars>>

(***************************************************************************)
(* Run: it waits for its context to be done, calls stop and returns.       *)
(***************************************************************************)
InitNoRun == ctxDone = FALSE

\* The context given to Run is cancelled: the server shuts down.
Cancel ==
    /\ ~ctxDone
    /\ ctxDone' = TRUE
    /\ UNCHANGED <<mgrVars, callVars, dispVars, stopVars, sigVars>>

\* Run: <-ctx.Done() returns, m.stop(ctx) begins.
Run ==
    /\ ctxDone
    /\ stopper.runs = 0
    /\ StopBegin

(***************************************************************************)
(* PluginBase.IncludedInSignature.                                         *)
(***************************************************************************)
\* File names a signed-file set or a question may hold.
MaxFiles == 3
Files == 1..MaxFiles

\* The values of SignedFiles: the nil map, or a map whose keys are a set of files.
NilFiles == [nil |-> TRUE, files |-> {}]
SignedFileSets == {NilFiles} \cup {[nil |-> FALSE, files |-> F] : F \in SUBSET Files}

\* The fields of a PluginBase that IncludedInSignature reads.
PluginBases == [IsCorePlugin : BOOLEAN, SignedFiles : SignedFileSets]

\* IncludedInSignature as it would be if it decided by SignedFiles alone.
IncludedInSignatureBySignedFiles(p, file) ==
    IF p.SignedFiles.nil THEN TRUE
    ELSE IF file \notin p.SignedFiles.files THEN FALSE
    ELSE TRUE

\* p.IncludedInSignature(file)
IncludedInSignature(p, file) ==
    IF p.IsCorePlugin THEN TRUE
    ELSE IF p.SignedFiles.nil THEN TRUE
    ELSE IF file \notin p.SignedFiles.files THEN FALSE
    ELSE TRUE

\* No call of IncludedInSignature.
NoSig ==
    [p |-> [IsCorePlugin |-> FALSE, SignedFiles |-> NilFiles], file |-> 1,
     called |-> FALSE, res |-> FALSE]

InitNoSig == sig = NoSig

\* A caller asks p.IncludedInSignature(file) and keeps the answer.
IncludedInSignatureCall ==
    /\ ~sig.called
    /\ sig' = [sig EXCEPT !.called = TRUE, !.res = IncludedInSignature(sig.p, sig.file)]
    /\ UNCHANGED <<mgrVars, callVars, dispVars, stopVars, runVars>>

(***************************************************************************)
(* Specifications.                                                         *)
(***************************************************************************)
Init == InitManager /\ InitNoCall /\ InitNoDispatch /\ InitNoStop /\ InitNoRun /\ InitNoSig


Next ==
    \/ \E id \in PluginIDs, v \in Versions, dir \in InstallDirs : InstallCall(id, v, dir)
    \/ GetUpdateInfo
    \/ \E id \in PluginIDs : UninstallCall(id)
    \/ InstallUninstall
    \/ Decommission
    \/ Stop
    \/ Delete
    \/ UninstallFiles
    \/ InstallFiles
    \/ LoadPlugins
    \/ RegisterAndStart
    \/ \E id \in PluginIDs : RegisterCall(id)
    \/ Returned
    \/ \E h \in Handles : WatchTick(h)
    \/ \E h \in Handles : WatchExited(h)
    \/ \E h \in Handles : WatchStart(h)
    \/ \E h \in Handles : ProcessExit(h)

Spec == Init /\ [][Next]_vars

\* A CallResource for plugin id begins, with the registry as init left it or with
\* A decommissioned by an Uninstall whose Stop failed.
InitCall ==
    /\ InitCaller
    /\ \/ RegistryWithoutA /\ decommissioned = [h \in Handles |-> FALSE]
       \/ \E d \in BOOLEAN :
             /\ RegistryWithA(DirChild, TRUE)
             /\ decommissioned = [h \in Handles |-> h = 2 /\ d]
    /\ \/ cpc = "CallResource" /\ dpc = "none" /\ dop = ""
       \/ cpc = "none" /\ dop \in DispatchOps /\ dpc = dop
    /\ dret = NoReturn
    /\ validateErr \in {Nil, ErrAccessDenied}
    /\ InitNoStop
    /\ InitNoRun
    /\ InitNoSig
    /\ rpc = "none"
    /\ pCtx \in PluginIDs
    /\ reqCtxDone = FALSE
    /\ cancelled = FALSE
    /\ stream = NewStream
    /\ sending = NoChunk
    /\ resp = NoChunk
    /\ processedStreams = 0
    /\ flushStreamErr = Nil
    /\ w = <<>>
    /\ sent = <<>>
    /\ pluginErr = Nil
    /\ retErr = Nil
    /\ respCode = 0
    /\ calls = <<>>

NextCall ==
    \/ Validate
    \/ callResourceInternal
    \/ \E headers \in HeaderChoices : PluginSend(headers)
    \/ SendCancelled
    \/ SendOnClosed
    \/ Transfer
    \/ \E e \in PluginErrors : PluginReturn(e)
    \/ DeferClose
    \/ DeferCloseChan
    \/ DeferSetClosed
    \/ Wait
    \/ RecvCancelled
    \/ RecvEOF
    \/ Process
    \/ RelayClose
    \/ RelayCloseChan
    \/ RelaySetClosed
    \/ CancelRequest
    \/ QueryData
    \/ CollectMetrics
    \/ CheckHealth
    \/ \E e \in PluginErrors : DispatchReturn(e)

SpecCall == InitCall /\ [][NextCall]_vars

\* The caller uninstalls and registers while stop and Renderer run.  After a
\* fatal error stop and Renderer take no step; the steps the caller may still
\* take then change nothing of what stop or Renderer did.
NextStop ==
    \/ \E id \in PluginIDs : UninstallCall(id)
    \/ Decommission
    \/ Stop
    \/ Delete
    \/ UninstallFiles
    \/ \E id \in PluginIDs : RegisterCall(id)
    \/ Returned
    \/ StopBegin
    \/ StopRange
    \/ \E h \in Handles : StopOne(h)
    \/ StopWait
    \/ RendererBegin
    \/ RendererRange

SpecStop == Init /\ [][NextStop]_vars

\* The shutdown: the context of Run is cancelled and Run calls stop, while the
\* crash-watch goroutines poll and the plugin processes may exit.
NextRun ==
    \/ Cancel
    \/ Run
    \/ StopRange
    \/ \E h \in Handles : StopOne(h)
    \/ StopWait
    \/ \E h \in Handles : WatchTick(h)
    \/ \E h \in Handles : WatchExited(h)
    \/ \E h \in Handles : WatchStart(h)
    \/ \E h \in Handles : ProcessExit(h)

SpecRun == Init /\ [][NextRun]_vars

\* One call of IncludedInSignature, for any PluginBase and any file.
InitSig ==
    /\ decommissioned = [h \in Handles |-> FALSE]
    /\ InitCaller
    /\ RegistryWithoutA
    /\ InitNoCall
    /\ InitNoDispatch
    /\ InitNoStop
    /\ InitNoRun
    /\ sig \in [p : PluginBases, file : Files, called : {FALSE}, res : {FALSE}]

NextSig == IncludedInSignatureCall

SpecSig == InitSig /\ [][NextSig]_vars

(***************************************************************************)
(* Claims about the registry, the crash-watch loop and the orchestration   *)
(* (specification Spec).                                                   *)
(***************************************************************************)
\* C1: a handle that is decommissioned and still a value of the registry map is
\* returned by none of Plugin, PluginByType and Plugins, whatever the type filter.
C1_DecommissionedInvisible ==
    \A id \in PluginIDs :
        (plugins[id] # NoPlugin /\ decommissioned[plugins[id]]) =>
            /\ Plugin(id) # plugins[id]
            /\ \A t \in PluginTypes : PluginByType(id, t) # plugins[id]
            /\ \A ts \in SUBSET PluginTypes : plugins[id] \notin Plugins(ts)

\* C2: a step of the crash-watch loop invokes Start only after a poll that saw the
\* process exited, a poll that sees the handle decommissioned ends the loop, and
\* Start is never invoked on a handle that is decommissioned.
C2_NoStartAfterDecommission ==
    [][\A h \in Handles :
          /\ (watch[h] # "start" /\ watch'[h] = "start") => (watch[h] = "exited" /\ Exited(h))
          /\ (watch[h] = "tick" /\ watch'[h] # "tick" /\ decommissioned[h]) => watch'[h] = "done"
          /\ (watch[h] = "start" /\ watch'[h] # "start") => ~decommissioned[h]]_vars

\* dir is inside the tree of root and is not root.
StrictDescendant(root, dir) ==
    Under(root, dir) /\ Clean(dir) # Clean(root)

\* The step is the part of Uninstall that decides whether to go on, for plugin id.
UninstallDecides(id) ==
    \/ pc = "idle" /\ call'.op = "Uninstall" /\ call'.id = id
    \/ pc = "Uninstall" /\ pc' # "Uninstall" /\ handle[plugin].ID = id

\* C5: Uninstall of an external handle whose PluginDir is no strict descendant of
\* PluginsPath returns ErrUninstallOutsideOfPluginDir and changes neither the
\* registry, the handle's flag and process, nor the filesystem.
C5_UninstallOutsideRefused ==
    [][\A id \in PluginIDs :
          (/\ UninstallDecides(id)
           /\ Plugin(id) # NoPlugin
           /\ IsExternalPlugin(Plugin(id))
           /\ ~StrictDescendant(PluginsPath, handle[Plugin(id)].PluginDir))
          => /\ pc' = "returned"
             /\ result'.err = ErrUninstallOutsideOfPluginDir
             /\ UNCHANGED <<plugins, handle, decommissioned, running, disk>>]_vars

\* The calls of a successful upgrade of a managed backend plugin, in order.
UpgradeTrace ==
    <<"GetUpdateInfo", "Decommission", "Stop", "delete", "Installer.Uninstall",
      "Installer.Install", "LoadAll", "register", "Start">>

\* Install has returned from an upgrade: the installed handle was external and of
\* another version, so the update-info lookup was made.
UpgradeReturned ==
    pc = "returned" /\ result.op = "Install" /\ trace # <<>> /\ trace[1] = "GetUpdateInfo"

\* C6: an Install that upgrades and returns nil has made exactly the calls of
\* UpgradeTrace in that order, and Plugin(id) is then a handle of the requested
\* version; one whose update-info lookup failed made no other call and left the
\* installed handle in the map, not decommissioned.
C6_Upgrade ==
    UpgradeReturned =>
        /\ result.err = Nil =>
              /\ trace = UpgradeTrace
              /\ Plugin(result.id) # NoPlugin
              /\ handle[Plugin(result.id)].Version = result.version
              /\ handle[Plugin(result.id)].ID = result.id
        /\ result.err = ErrGetUpdateInfo =>
              /\ trace = <<"GetUpdateInfo">>
              /\ plugins[result.id] = plugin
              /\ Plugin(result.id) = plugin
              /\ handle[plugin].Version # result.version

C6_Witness ==
    UpgradeReturned /\ result.err = Nil /\ result.id = "A" /\ result.version = "2.0"

\* The step is a call of op(id, ...) by the caller.
Calls(op, id) == pc = "idle" /\ call'.op = op /\ call'.id = id

\* The step returns err at once and touches neither registry, handles nor disk.
Rejects(err, dir) ==
    /\ pc' = "returned"
    /\ result'.err = err
    /\ result'.dir = dir
    /\ trace' = <<>>
    /\ UNCHANGED callVars
    /\ UNCHANGED <<plugins, handle, decommissioned, running, watch, disk>>

\* C7: Uninstall of a registered non-external plugin returns ErrUninstallCorePlugin,
\* Install of one returns ErrInstallCorePlugin, Install of an external plugin at
\* its installed version returns DuplicatePluginError with the handle's PluginDir;
\* each without a change to the registry or the handles and without Installer call.
C7_Rejections ==
    [][\A id \in PluginIDs :
          LET p == Plugin(id) IN
          /\ (Calls("Uninstall", id) /\ p # NoPlugin /\ ~IsExternalPlugin(p))
                => Rejects(ErrUninstallCorePlugin, NoDir)
          /\ (Calls("Install", id) /\ p # NoPlugin /\ ~IsExternalPlugin(p))
                => Rejects(ErrInstallCorePlugin, NoDir)
          /\ (Calls("Install", id) /\ p # NoPlugin /\ IsExternalPlugin(p)
                /\ handle[p].Version = call'.version)
                => Rejects(DuplicatePluginError, handle[p].PluginDir)]_vars

C7_Witness ==
    /\ pc = "returned"
    /\ result.op = "Install"
    /\ result.err = DuplicatePluginError
    /\ result.dir = DirChild
    /\ plugins["B"] # NoPlugin /\ ~IsExternalPlugin(plugins["B"])

\* The step invokes register, for the plugin id given.
RegisterInvoked(id) ==
    \/ pc = "idle" /\ call'.op = "Register" /\ call'.id = id
          /\ trace' = <<"LoadWithFactory", "register">>
    \/ pc = "registerAndStart" /\ trace' # trace /\ Head(queue).ID = id

PluginReturned(e) ==
    /\ cpc \in {"deferClose", "deferCloseChan", "deferSetClosed", "Wait", "done", "panicked"}
    /\ Len(calls) = 2
    /\ pluginErr = e

IsWrite(e) == e.op = "Write"
IsWriteHeader(e) == e.op = "WriteHeader"

\* C3: a resource call whose plugin returned nil without a chunk delivered (the
\* request not cancelled) returns ErrEmptyResponse, is answered as a failure, and
\* has written nothing to w.
C3_EmptyResponseFails ==
    (cpc = "done" /\ PluginReturned(Nil) /\ sent = <<>> /\ ~reqCtxDone) =>
        /\ retErr = ErrEmptyResponse
        /\ respCode = 500
        /\ w = <<>>

\* The id is no key of the registry map, or the key's handle is decommissioned.
Unregistered(id) ==
    plugins[id] = NoPlugin \/ decommissioned[plugins[id]]

\* C4 as claimed: a CallResource for an id that is absent or decommissioned ends
\* with ErrPluginNotRegistered and has invoked neither the validator nor the plugin.
C4_UnregisteredSkipsValidator ==
    (cpc = "done" /\ Unregistered(pCtx)) =>
        /\ retErr = ErrPluginNotRegistered
        /\ calls = <<>>

\* C4 as amended: a CallResource for an id that is absent or decommissioned invokes
\* the validator, once and first, and never the plugin; unless the validator
\* rejected the request or the URL did not parse, it ends with
\* ErrPluginNotRegistered, answered with status 500.
C4_UnregisteredAfterValidation ==
    (cpc = "done" /\ Unregistered(pCtx)) =>
        /\ calls = <<"Validate">>
        /\ retErr \notin {ErrAccessDenied, ErrParseURL} =>
              (retErr = ErrPluginNotRegistered /\ respCode = 500)
        /\ w = <<>>

C4_Witness ==
    /\ cpc = "done"
    /\ plugins[pCtx] # NoPlugin
    /\ decommissioned[plugins[pCtx]]
    /\ retErr = ErrPluginNotRegistered
    /\ calls = <<"Validate">>

\* C9: when the resource call is over after the plugin's CallResource returned,
\* by a return or by a panic that unwinds it, the channel of the stream is closed
\* and the relay goroutine has ended.
C9_RelayEndsBeforeReturn ==
    \A e \in PluginErrors :
        (cpc \in {"done", "panicked"} /\ PluginReturned(e)) =>
            /\ stream.chan = "closed"
            /\ rpc = "done"

\* C10: the bodies written to w are the bodies of the chunks the plugin sent, in
\* that order (all of them once the call is over); headers and status are
\* committed at most once, once when the first chunk processed carried headers,
\* and then before every body.
C10_OrderedRelay ==
    LET writes == SelectSeq(w, IsWrite)
        commits == SelectSeq(w, IsWriteHeader)
    IN  /\ Len(writes) = processedStreams
        /\ Len(writes) <= Len(sent)
        /\ \A i \in 1..Len(writes) : writes[i].body = sent[i].Body
        /\ \A i \in 1..Len(sent) : sent[i].Body = i
        /\ cpc = "done" => Len(writes) = Len(sent)
        /\ Len(commits) <= 1
        /\ (processedStreams >= 1 /\ ~sent[1].Headers.nil) => Len(commits) = 1
        /\ (processedStreams >= 1 /\ sent[1].Headers.nil) => Len(commits) = 0
        /\ Len(commits) = 1 => (IsWriteHeader(w[1]) /\ w[1].status = sent[1].Status)

C10_Witness ==
    /\ cpc = "done"
    /\ respCode = 0
    /\ Len(SelectSeq(w, IsWrite)) = 3
    /\ Len(SelectSeq(w, IsWriteHeader)) = 1
    /\ ~sent[2].Headers.nil

\* The header name n is the name of key k: header names are case-insensitive.
NamedBy(n, k) == CanonicalMIMEHeaderKey(k) = n

\* C11: the headers committed for a first chunk with headers hold no Set-Cookie,
\* hold every value of every other header of the chunk, and hold as Content-Type
\* the chunk's own values when it has some, otherwise only application/json.
C11_CommittedHeaders ==
    \A i \in 1..Len(w) :
        IsWriteHeader(w[i]) =>
            LET chunk == sent[1].Headers.kv
                own == {h[2] : h \in {g \in chunk : NamedBy("Content-Type", g[1])}}
                committed == {h[2] : h \in {g \in w[i].headers : g[1] = "Content-Type"}}
            IN  /\ \A h \in w[i].headers : h[1] # "Set-Cookie"
                /\ \A h \in chunk :
                       ~NamedBy("Set-Cookie", h[1]) =>
                           <<CanonicalMIMEHeaderKey(h[1]), h[2]>> \in w[i].headers
                /\ committed = IF own # {} THEN own ELSE {"application/json"}

\* C12: a resource call whose plugin returned nil ends, when the relay met a
\* receive error before any chunk, with that error (status 500), and when at
\* least one chunk was processed, with the stream closed and no error.
C12_ReceiveError ==
    (cpc = "done" /\ pluginErr = Nil) =>
        /\ flushStreamErr = ErrReceive => (retErr = ErrReceive /\ respCode = 500)
        /\ processedStreams >= 1 =>
               (retErr = Nil /\ respCode = 0 /\ stream.chan = "closed")

\* C13: a Close that finds the stream closed returns its error and leaves the
\* stream as it is, and close(s.stream) is never executed on a channel that is
\* already closed, neither by the deferred Close nor by the relay's.
C13_ClosedOnce ==
    [][/\ (cpc = "deferClose" /\ cpc' # cpc /\ stream.closed) =>
              (cpc' = "Wait" /\ stream' = stream)
       /\ (rpc = "Close" /\ rpc' # rpc /\ stream.closed) =>
              (flushStreamErr' = ErrCloseClosed /\ stream' = stream)
       /\ (cpc = "deferCloseChan" /\ cpc' # cpc) => stream.chan = "open"
       /\ (rpc = "CloseChan" /\ rpc' # rpc) => stream.chan = "open"]_vars

\* The handles the registry held when the running (or last) stop began.
HandlesAtStop == {stopper.seen[id] : id \in {i \in PluginIDs : stopper.seen[i] # NoPlugin}}

\* C14: stop never ends in a panic; once its range is over, Stop has been invoked
\* on every handle the registry held when stop began, whether or not Stop calls
\* failed; and stop has returned only when every one of those Stop calls has
\* returned, the second time as the first.
C14_StopAll ==
    /\ stopper.pc # "fatal"
    /\ stopper.pc \in {"wait", "done"} => HandlesAtStop \subseteq stopper.invoked
    /\ stopper.pc = "done" => stopper.wg = {}

\* C15: a CheckHealth whose request the validator rejects returns a result with
\* status 403 and no error, and a CallResource whose request the validator rejects
\* is answered with 403, for a registered plugin as for an unregistered one; in
\* both, the validator is all that was invoked.
C15_AccessDenied ==
    /\ (dop = "CheckHealth" /\ dpc = "done" /\ validateErr # Nil) =>
           (dret = Return("result", 403, NoWrap(Nil)) /\ calls = <<"Validate">>)
    /\ (cpc = "done" /\ validateErr # Nil) =>
           (respCode = 403 /\ calls = <<"Validate">> /\ w = <<>>)
    /\ (dop \in {"", "CheckHealth"} /\ validateErr # Nil) =>
           (dpc # "plugin" /\ cpc # "plugin")

C15_Witness ==
    /\ dop = "CheckHealth"
    /\ dpc = "done"
    /\ validateErr = ErrAccessDenied
    /\ Unregistered(pCtx)
    /\ dret.status = 403

\* C16: for a plugin that is absent or decommissioned, QueryData returns an empty
\* response and no error, while CollectMetrics, CheckHealth (its request valid)
\* and the resource call (its request valid, its URL parsed) return
\* ErrPluginNotRegistered; none of them invokes a capability of the plugin.
C16_AbsentHandle ==
    Unregistered(pCtx) =>
        /\ dpc # "plugin" /\ cpc # "plugin"
        /\ (dop = "QueryData" /\ dpc = "done") =>
               (dret = Return("empty", 0, NoWrap(Nil)) /\ calls = <<>>)
        /\ (dop = "CollectMetrics" /\ dpc = "done") =>
               (dret = Return("", 0, NoWrap(ErrPluginNotRegistered)) /\ calls = <<>>)
        /\ (dop = "CheckHealth" /\ dpc = "done" /\ validateErr = Nil) =>
               (dret = Return("", 0, NoWrap(ErrPluginNotRegistered)) /\ calls = <<"Validate">>)
        /\ (cpc = "done" /\ validateErr = Nil /\ retErr # ErrParseURL) =>
               (retErr = ErrPluginNotRegistered /\ calls = <<"Validate">>)

C16_Witness ==
    /\ dop = "QueryData"
    /\ dpc = "done"
    /\ plugins[pCtx] # NoPlugin
    /\ decommissioned[plugins[pCtx]]
    /\ dret.res = "empty"

\* The errors a dispatcher passes through as they are.
Sentinels == {ErrMethodNotImplemented, ErrPluginUnavailable}

\* C17: when the plugin's capability returned an error, QueryData, CollectMetrics,
\* CheckHealth and the resource call return that same error if it is one of the
\* two sentinels, and otherwise an error wrapped with a message of the operation.
C17_Normalised ==
    \A e \in PluginErrors \ {Nil} :
        /\ (dpc = "done" /\ pluginErr = e) =>
               IF e \in Sentinels THEN dret.err = NoWrap(e) ELSE dret.err.msg # ""
        /\ (cpc = "done" /\ PluginReturned(e)) =>
               IF e \in Sentinels THEN retErr = e ELSE retErr # e

\* C18: a CallResource that failed is answered with 403 when the validator
\* rejected the request, with 503 when the failure is ErrPluginUnavailable, with
\* 404 when it is ErrMethodNotImplemented, and with 500 for every other failure,
\* an empty resource response among them.
C18_ResponseCodes ==
    cpc = "done" =>
        /\ validateErr # Nil => respCode = 403
        /\ (validateErr = Nil /\ retErr # Nil) =>
               respCode = CASE retErr = ErrPluginUnavailable -> 503
                            [] retErr = ErrMethodNotImplemented -> 404
                            [] OTHER -> 500
        /\ (PluginReturned(Nil) /\ flushStreamErr = ErrEmptyResponse) => respCode = 500

\* C19: in the steps of an operation, a Stop of unregisterAndStop directly follows
\* its Decommission and the removal from the map directly follows that Stop; and
\* when the operation has returned the error of Decommission or of Stop, the
\* entry is still in the map, nothing was removed from it and the Installer was
\* not invoked after unregisterAndStop began.
C19_UnregisterOrder ==
    /\ \A i \in 1..Len(trace) :
           /\ trace[i] = "Stop" => (i > 1 /\ trace[i - 1] = "Decommission")
           /\ trace[i] = "delete" =>
                  (i > 2 /\ trace[i - 1] = "Stop" /\ trace[i - 2] = "Decommission")
    /\ (pc = "returned" /\ result.err \in {ErrDecommission, ErrStop}) =>
           /\ plugins[handle[plugin].ID] = plugin
           /\ \A i \in 1..Len(trace) :
                  trace[i] \notin {"delete", "Installer.Uninstall", "Installer.Install"}
           /\ trace[Len(trace)] = IF result.err = ErrStop THEN "Stop" ELSE "Decommission"

C19_Witness ==
    /\ pc = "returned"
    /\ result.op = "Uninstall"
    /\ result.err = ErrStop
    /\ trace = <<"Decommission", "Stop">>
    /\ plugins[result.id] = plugin
    /\ decommissioned[plugin]

\* C20: the write an operation made to m.plugins was made under the exclusive
\* lock, a range over m.plugins (by stop, by Renderer) is made under the shared
\* lock, and no write to the map falls into a range that is under way.
C20_MapUnderLock ==
    /\ mapAccess.mode = "write" => mapAccess.lock = "Lock"
    /\ stopper.pc = "range" => (stopper.lock = "RLock" /\ ~Raced(stopper))
    /\ renderer.pc = "range" => (renderer.lock = "RLock" /\ ~Raced(renderer))
    /\ ~Fatal

\* C21: once the context of Run is done and stop has returned, no step of a
\* crash-watch loop invokes Start on a handle that stop invoked Stop on.
C21_NoStartAfterShutdown ==
    [][\A h \in Handles :
          (ctxDone /\ stopper.pc = "done" /\ h \in stopper.invoked /\ watch[h] = "start")
              => watch'[h] = "start"]_vars

\* The step passes the new managed backend handle h to start, which invokes Start.
StartInvoked(h) ==
    /\ pc = "registerAndStart"
    /\ handle[h] = NoHandle /\ handle'[h] # NoHandle
    /\ handle'[h].Managed /\ handle'[h].Backend
    /\ trace' # trace /\ trace'[Len(trace')] = "Start"

\* C22: a step that passes a managed backend handle to start leaves a crash-watch
\* loop polling for it, whether its Start failed or not, and a crash-watch loop
\* whose Start failed goes on polling.
C22_RetryNeverEnds ==
    [][\A h \in Handles :
          /\ StartInvoked(h) => watch'[h] = "tick"
          /\ (watch[h] = "start" /\ watch'[h] # "start") => watch'[h] = "tick"]_vars

\* C23 as claimed: IncludedInSignature permits every file when SignedFiles is
\* nil, and otherwise permits exactly the files that are keys of SignedFiles.
C23_ExactlyListed ==
    sig.called =>
        sig.res = IF sig.p.SignedFiles.nil THEN TRUE
                  ELSE sig.file \in sig.p.SignedFiles.files

\* C23 as amended: IncludedInSignature permits every file of a core plugin; for
\* any other plugin it permits every file when SignedFiles is nil, and otherwise
\* permits exactly the files that are keys of SignedFiles.
C23_CoreOrListed ==
    sig.called =>
        sig.res = IF sig.p.IsCorePlugin \/ sig.p.SignedFiles.nil THEN TRUE
                  ELSE sig.file \in sig.p.SignedFiles.files

C23_Witness ==
    /\ sig.called
    /\ sig.p.IsCorePlugin
    /\ ~sig.p.SignedFiles.nil
    /\ sig.file \notin sig.p.SignedFiles.files
    /\ sig.res

====
